---------------------------- MODULE Spec2Model ----------------------------
(***************************************************************************)
(* A model of reporter.py: the per-site reset (drop_tables/create_tables), *)
(* the per-table load pipeline of process, and export_log.                 *)
(*                                                                         *)
(* A Python string is a sequence of one-character strings, so that         *)
(* str.lower, '%' formatting and dictionary look-up by file name are       *)
(* computed the way the code computes them.  A CSV cell is a string;       *)
(* NaN is the cell pandas produces for a missing value.                    *)
(***************************************************************************)
EXTENDS Integers, Sequences, FiniteSets, TLC

(***************************************************************************)
(* Bounds of the model.                                                    *)
(***************************************************************************)
\* the source directory holds at most MaxFiles files
MaxFiles == 2

(***************************************************************************)
(* Strings.                                                                *)
(***************************************************************************)
UpperChars ==
  <<"A", "B", "C", "D", "E", "F", "G", "H", "I", "J", "K", "L", "M",
    "N", "O", "P", "Q", "R", "S", "T", "U", "V", "W", "X", "Y", "Z">>

LowerChars ==
  <<"a", "b", "c", "d", "e", "f", "g", "h", "i", "j", "k", "l", "m",
    "n", "o", "p", "q", "r", "s", "t", "u", "v", "w", "x", "y", "z">>

\* the lower-case letter of each upper-case letter
LowerOf == [c \in {UpperChars[i] : i \in 1..Len(UpperChars)} |->
              LowerChars[CHOOSE i \in 1..Len(UpperChars) : UpperChars[i] = c]]

\* str.lower on one character
CharLower(c) == IF c \in DOMAIN LowerOf THEN LowerOf[c] ELSE c

\* str.lower
StrLower(s) == [i \in 1..Len(s) |-> CharLower(s[i])]

\* str.endswith
EndsWith(s, suffix) ==
  /\ Len(suffix) <= Len(s)
  /\ SubSeq(s, Len(s) - Len(suffix) + 1, Len(s)) = suffix

\* `sub in s' for strings
Contains(s, sub) ==
  \E i \in 1..(Len(s) - Len(sub) + 1) : SubSeq(s, i, i + Len(sub) - 1) = sub

\* the elements of a sequence
Range(s) == {s[i] : i \in 1..Len(s)}

\* the last element of a non-empty sequence: list[-1]
Last(s) == s[Len(s)]

(***************************************************************************)
(* Module constants and configuration (settings, run_config, resources).   *)
(***************************************************************************)
LOG_TABLE_NAME ==
  <<"p", "m", "i", "_", "s", "p", "r", "i", "n", "t", "_",
    "r", "e", "p", "o", "r", "t", "e", "r", "_", "l", "o", "g">>

\* settings.sprint_num, as '%s' formats it
sprint_num == <<"1">>

\* settings.csv_dir
csv_dir == <<"c", "s", "v", "_", "d", "i", "r">>

\* table and column names of the catalog
person == <<"p", "e", "r", "s", "o", "n">>
death == <<"d", "e", "a", "t", "h">>
care_site == <<"c", "a", "r", "e", "_", "s", "i", "t", "e">>
person_id == <<"p", "e", "r", "s", "o", "n", "_", "i", "d">>
gender_concept_id ==
  <<"g", "e", "n", "d", "e", "r", "_", "c", "o", "n", "c", "e", "p", "t", "_", "i", "d">>
gender_source_concept_id ==
  <<"g", "e", "n", "d", "e", "r", "_", "s", "o", "u", "r", "c", "e", "_",
    "c", "o", "n", "c", "e", "p", "t", "_", "i", "d">>
death_date == <<"d", "e", "a", "t", "h", "_", "d", "a", "t", "e">>
care_site_id == <<"c", "a", "r", "e", "_", "s", "i", "t", "e", "_", "i", "d">>

\* resources.pmi_tables_csv_path: the table_name column (duplicates allowed)
pmi_tables_csv == <<person, death, person>>

\* pandas .unique() of the in-scope list, used as a membership test
pmi_tables == Range(pmi_tables_csv)

\* the schema argument when all sites share the default namespace (None)
DefaultSchema == <<>>

\* the site lists run_config may supply
HpoIdLists ==
  { << <<"a">>, <<"b">> >>,
    << <<"a">>, <<"B">> >> }

AllHpoIds == UNION {Range(l) : l \in HpoIdLists}

Namespaces == AllHpoIds \cup {DefaultSchema}


(***************************************************************************)
(* The schema catalog (resources.cdm_csv_path) as pandas reads it.         *)
(***************************************************************************)
\* a catalog whose data types are all recognised
cdm_csv_valid ==
  << <<care_site, care_site_id, "no", "integer">>,
     <<death, person_id, "no", "integer">>,
     <<death, death_date, "yes", "character varying">>,
     <<person, person_id, "no", "integer">>,
     <<person, gender_concept_id, "no", "integer">>,
     <<person, gender_source_concept_id, "yes", "integer">> >>

\* the same catalog with one column of an unrecognised data type
cdm_csv_badtype ==
  [cdm_csv_valid EXCEPT ![3] = <<death, death_date, "yes", "timestamp">>]

Catalogs == {cdm_csv_valid, cdm_csv_badtype}

\* characters in the order Python compares them
CharOrder ==
  <<".", "0", "1", "2", "3", "4", "5", "6", "7", "8", "9">>
  \o UpperChars \o <<"_">> \o LowerChars

CodeOf == [c \in {CharOrder[i] : i \in 1..Len(CharOrder)} |->
             CHOOSE i \in 1..Len(CharOrder) : CharOrder[i] = c]

\* ord(c)
CharCode(c) == CodeOf[c]

\* a < b for strings
RECURSIVE StrLess(_, _)
StrLess(a, b) ==
  IF b = <<>> THEN FALSE
  ELSE IF a = <<>> THEN TRUE
  ELSE IF a[1] # b[1] THEN CharCode(a[1]) < CharCode(b[1])
  ELSE StrLess(Tail(a), Tail(b))

\* the keys of a groupby, which pandas yields in sorted order
RECURSIVE SortedKeys(_)
SortedKeys(S) ==
  IF S = {} THEN <<>>
  ELSE LET m == CHOOSE x \in S : \A y \in S \ {x} : StrLess(x, y)
       IN <<m>> \o SortedKeys(S \ {m})

\* one group: the rows of a table, in catalog order
TableDf(df, table_name) == SelectSeq(df, LAMBDA r : r[1] = table_name)

\* table_df.column_name.unique()
ColumnNames(table_df) == [i \in 1..Len(table_df) |-> table_df[i][2]]

\* a create_tables that gives a column of unrecognised data type a default
\* type instead of raising
ColumnTypeLenient(data_type) ==
  CASE data_type = "integer" -> "BigInteger"
    [] data_type = "numeric" -> "Float"
    [] data_type = "date" -> "Date"
    [] data_type = "datetime" -> "datetime_tpe"
    [] OTHER -> "String(500)"

\* the column type create_tables picks for a catalog data type
ColumnType(data_type) ==
  CASE data_type \in {"character varying", "text"} -> "String(500)"
    [] data_type = "integer" -> "BigInteger"
    [] data_type = "numeric" -> "Float"
    [] data_type = "date" -> "Date"
    [] data_type = "datetime" -> "datetime_tpe"
    [] OTHER -> "NotImplementedError"

\* Column(column_name, tpe, nullable=nullable)
Column(name, tpe, nullable) == [name |-> name, tpe |-> tpe, nullable |-> nullable]

\* the columns create_tables builds for one group of the catalog
TableColumns(table_df) ==
  [i \in 1..Len(table_df) |->
     Column(table_df[i][2], ColumnType(table_df[i][4]), table_df[i][3] = "yes")]

\* the layout of the log table
LogColumns ==
  << Column("log_id", "DateTime", FALSE),
     Column("table_name", "String(100)", FALSE),
     Column("phase", "String(200)", FALSE),
     Column("success", "Boolean", FALSE),
     Column("message", "String(500)", TRUE),
     Column("params", "String(800)", TRUE) >>

(***************************************************************************)
(* CSV cells and files.                                                    *)
(***************************************************************************)
\* the missing value of pandas
NaN == "NaN"

\* SQL NULL in a message column; an absent params value
NULL == "NULL"
NoParams == <<>>

\* na_values=['', ' ', '.']
NaValues == {"", " ", "."}

IntegerCells == {"0", "1", "2", "3", "4", "5", "6", "7", "8", "9"}

\* a table of the database
NewTable(columns) == [columns |-> columns, rows |-> <<>>]


\* a row violates the layout of its table: the storage layer refuses a NULL
\* in a column that is not nullable and a non-integer in an integer column
RowViolation(columns, row) ==
  IF \E j \in 1..Len(columns) : ~columns[j].nullable /\ row[j] = NaN
  THEN "IntegrityError"
  ELSE IF \E j \in 1..Len(columns) :
            columns[j].tpe = "BigInteger" /\ row[j] \notin IntegerCells \cup {NaN}
  THEN "DataError"
  ELSE "none"

\* the number of data rows of the larger sample files
MaxRows == 2

Person_Id == <<"P", "e", "r", "s", "o", "n", "_", "I", "d">>
PERSON_ID == <<"P", "E", "R", "S", "O", "N", "_", "I", "D">>
extra == <<"e", "x", "t", "r", "a">>
GENDER_CONCEPT_ID ==
  <<"G", "E", "N", "D", "E", "R", "_", "C", "O", "N", "C", "E", "P", "T", "_", "I", "D">>

\* a file of n data rows with the single column person_id; row `bad' (if any)
\* has a blank person_id
RowsFile(n, bad) ==
  [header |-> <<person_id>>,
   rows |-> [i \in 1..n |-> IF i = bad THEN <<".">> ELSE <<"1">>]]

\* the contents a source file may have
CsvFiles ==
  { [header |-> <<>>, rows |-> <<>>],
    RowsFile(0, 0),
    RowsFile(MaxRows, 0),
    [header |-> <<person_id>>, rows |-> << <<"x">>, <<"1">> >>],
    [header |-> <<extra, Person_Id, gender_source_concept_id, GENDER_CONCEPT_ID>>,
     rows |-> << <<"x", "1", " ", "">>, <<"y", "2", "5", "7">> >>],
    [header |-> <<person_id, PERSON_ID>>, rows |-> << <<"1", "2">> >>] }
  \cup {RowsFile(MaxRows, k) : k \in 1..MaxRows}

(***************************************************************************)
(* Exceptions.                                                             *)
(***************************************************************************)
NoExc == [type |-> "none", args |-> <<>>, params |-> NoParams]

\* raise <type>(*args); params is the attribute a StatementError carries
Raise(type, args, params) == [type |-> type, args |-> args, params |-> params]

\* subclasses of sqlalchemy.exc.StatementError
StatementErrors == {"StatementError", "IntegrityError", "DataError"}

\* subclasses of Exception
Exceptions == StatementErrors \cup {"Exception", "IOError", "EmptyDataError", "ValueError"}

\* e.message: the single argument of the exception, '' otherwise
Message(e) == IF Len(e.args) = 1 THEN e.args[1] ELSE ""

\* str(e.params)
Str(x) == <<"str", x>>

(***************************************************************************)
(* File names.                                                             *)
(***************************************************************************)
DotCsv == <<".", "c", "s", "v">>

\* '%(hpo_id)s_%(table_name)s_datasprint_%(sprint_num)s.csv' % locals()
CsvFilename(hpo_id, table_name) ==
  hpo_id \o <<"_">> \o table_name
    \o <<"_", "d", "a", "t", "a", "s", "p", "r", "i", "n", "t", "_">>
    \o sprint_num \o DotCsv

\* os.path.join(settings.csv_dir, name); a path is its list of components
PathJoin(dir, name) == <<dir, name>>

\* glob.glob(os.path.join(settings.csv_dir, '*.csv')) over the files of the
\* directory; the pattern is matched with the case of the file system
Glob(files) == {PathJoin(csv_dir, f) : f \in {g \in files : EndsWith(g, DotCsv)}}

\* path_to_file_map_item(p): (filename.lower(), p)
path_to_file_map_item(p) == <<StrLower(Last(p)), p>>

\* dict(file_map_items): one entry per key; of the items with the same key the
\* one glob lists last stays, and glob lists in no particular order
FileMaps(files) ==
  LET items == {path_to_file_map_item(p) : p \in Glob(files)}
      keys == {it[1] : it \in items}
  IN {fm \in [keys -> Glob(files)] : \A k \in keys : <<k, fm[k]>> \in items}

\* the upper-case letter of each lower-case letter
UpperOf == [c \in {LowerChars[i] : i \in 1..Len(LowerChars)} |->
              UpperChars[CHOOSE i \in 1..Len(LowerChars) : LowerChars[i] = c]]

\* str.upper on one character
CharUpper(c) == IF c \in DOMAIN UpperOf THEN UpperOf[c] ELSE c

StrUpper(s) == [i \in 1..Len(s) |-> CharUpper(s[i])]

\* the file names the source directory may hold
FileNames ==
  LET a_person == CsvFilename(<<"a">>, person)
      stem == SubSeq(a_person, 1, Len(a_person) - Len(DotCsv))
  IN { a_person,
       CsvFilename(<<"a">>, death),
       StrUpper(stem) \o DotCsv,
       stem \o StrUpper(DotCsv),
       CsvFilename(<<"b">>, person),
       CsvFilename(<<"B">>, person) }


(***************************************************************************)
(* State.                                                                  *)
(***************************************************************************)
VARIABLES
  hpo_ids,            \* run_config.hpo_ids
  use_multi_schemas,  \* run_config.use_multi_schemas
  cdm_df,             \* the catalog pandas.read_csv(resources.cdm_csv_path) yields
  dir_files,          \* the names of the files in settings.csv_dir
  db,                 \* the database: per namespace, whether it exists and its tables
  clock,              \* what datetime.datetime.utcnow() returns next
  pc,                 \* the statement the run is at
  hpo_idx,            \* main: the position of hpo_id in hpo_ids
  table_idx,          \* process: the position of table_name in tables
  phase,              \* process: the variable phase
  file_map,           \* process: the dictionary file_map
  csv_path,           \* process: the variable csv_path
  df,                 \* process: the data frame df
  row_idx,            \* to_sql: the next row to insert
  exc,                \* the exception being raised, NoExc if none
  events,             \* history: the calls made (open, read_csv, to_sql, row
                      \* inserts), errors raised and log entries written, in order
  log_json            \* the document export_log wrote, NoDocument if none

vars ==
  <<hpo_ids, use_multi_schemas, cdm_df, dir_files, db, clock, pc, hpo_idx,
    table_idx, phase, file_map, csv_path, df, row_idx, exc, events, log_json>>

config == <<hpo_ids, use_multi_schemas, cdm_df, dir_files>>
locals == <<table_idx, phase, file_map, csv_path, df, row_idx>>

NoDocument == [written |-> FALSE, items |-> <<>>]
NoPhase == <<"none">>
NoPath == <<>>
NoDf == [columns |-> <<>>, rows |-> <<>>]
NoFileMap == <<>>

\* main, line 211: schema = hpo_id if use_multi_schemas else None
SchemaOf(h) == IF use_multi_schemas THEN h ELSE DefaultSchema

hpo_id == hpo_ids[hpo_idx]
schema == SchemaOf(hpo_id)

\* process, lines 109-111: the in-scope groups of the catalog, in group order
tables == SortedKeys({cdm_df[i][1] : i \in 1..Len(cdm_df)} \cap pmi_tables)

table_name == tables[table_idx]
table_df == TableDf(cdm_df, table_name)
csv_filename == CsvFilename(hpo_id, table_name)

(***************************************************************************)
(* The initial database: empty, or left behind by an earlier run.          *)
(***************************************************************************)
other == <<"o", "t", "h", "e", "r">>

NoTables == [n \in {} |-> NewTable(<<>>)]

FreshDb == [ns \in Namespaces |-> [exists |-> ns = DefaultSchema, tables |-> NoTables]]

StaleEntry ==
  [log_id |-> 0, table_name |-> person, phase |-> <<"Loading file into table">>,
   success |-> TRUE, message |-> NULL, params |-> NoParams]

StaleTables ==
  (person :> [columns |-> <<Column(person_id, "BigInteger", FALSE)>>,
              rows |-> << <<"9">> >>])
  @@ (care_site :> [columns |-> <<Column(care_site_id, "BigInteger", FALSE)>>,
                    rows |-> << <<"9">> >>])
  @@ (other :> [columns |-> <<Column(person_id, "BigInteger", TRUE)>>,
                rows |-> << <<"9">> >>])
  @@ (LOG_TABLE_NAME :> [columns |-> LogColumns, rows |-> <<StaleEntry>>])

StaleDb == [ns \in Namespaces |-> [exists |-> TRUE, tables |-> StaleTables]]

Init ==
  /\ hpo_ids \in HpoIdLists
  /\ use_multi_schemas \in BOOLEAN
  /\ cdm_df \in Catalogs
  /\ dir_files \in {S \in SUBSET FileNames : Cardinality(S) <= MaxFiles}
  /\ db \in {FreshDb, StaleDb}
  /\ clock = 1
  /\ pc = "main"
  /\ hpo_idx = 0
  /\ table_idx = 0
  /\ phase = NoPhase
  /\ file_map = NoFileMap
  /\ csv_path = NoPath
  /\ df = NoDf
  /\ row_idx = 0
  /\ exc = NoExc
  /\ events = <<>>
  /\ log_json = NoDocument

(***************************************************************************)
(* main, create_schema, drop_tables, create_tables.                        *)
(***************************************************************************)
\* main, lines 209-213: the next site
MainNextSite ==
  /\ pc = "main"
  /\ hpo_idx < Len(hpo_ids)
  /\ hpo_idx' = hpo_idx + 1
  /\ pc' = IF use_multi_schemas THEN "create_schema" ELSE "drop_tables"
  /\ UNCHANGED <<config, db, clock, locals, exc, events, log_json>>

\* main, line 209: the loop is exhausted and main returns
MainReturn ==
  /\ pc = "main"
  /\ hpo_idx = Len(hpo_ids)
  /\ pc' = "done"
  /\ UNCHANGED <<config, db, clock, hpo_idx, locals, exc, events, log_json>>

\* create_schema(schema)
create_schema ==
  /\ pc = "create_schema"
  /\ db' = [db EXCEPT ![schema].exists = TRUE]
  /\ pc' = "drop_tables"
  /\ UNCHANGED <<config, clock, hpo_idx, locals, exc, events, log_json>>

\* a drop_tables that drops every table the catalog or the log declares
KeptTablesCatalogDropped(T) ==
  [n \in {m \in DOMAIN T :
           ~(m \in {cdm_df[i][1] : i \in 1..Len(cdm_df)} \/ m = LOG_TABLE_NAME)} |-> T[n]]

\* a drop_tables that drops the in-scope tables but not the log table
KeptTablesLogKept(T) ==
  [n \in {m \in DOMAIN T : ~(m \in pmi_tables)} |-> T[n]]

\* the tables drop_tables keeps
KeptTables(T) ==
  [n \in {m \in DOMAIN T : ~(m \in pmi_tables \/ m = LOG_TABLE_NAME)} |-> T[n]]

\* drop_tables(schema)
drop_tables ==
  /\ pc = "drop_tables"
  /\ db' = [db EXCEPT ![schema].tables = KeptTables(@)]
  /\ pc' = "create_tables"
  /\ UNCHANGED <<config, clock, hpo_idx, locals, exc, events, log_json>>

\* the tables create_tables declares: one per group of the catalog, and the log
DeclaredTables ==
  [n \in {cdm_df[i][1] : i \in 1..Len(cdm_df)} \cup {LOG_TABLE_NAME} |->
     IF n = LOG_TABLE_NAME THEN NewTable(LogColumns)
     ELSE NewTable(TableColumns(TableDf(cdm_df, n)))]

\* metadata.create_all(engine): the declared tables that do not exist yet
CreateAll(T, declared) ==
  [n \in DOMAIN T \cup DOMAIN declared |-> IF n \in DOMAIN T THEN T[n] ELSE declared[n]]

\* create_tables(schema): an unrecognised data type raises before create_all
create_tables ==
  /\ pc = "create_tables"
  /\ IF \E i \in 1..Len(cdm_df) : ColumnType(cdm_df[i][4]) = "NotImplementedError"
     THEN /\ exc' = Raise("NotImplementedError", <<"Unexpected data_type in cdm.csv">>, NoParams)
          /\ pc' = "aborted"
          /\ UNCHANGED <<db, locals>>
     ELSE /\ db' = [db EXCEPT ![schema].tables = CreateAll(@, DeclaredTables)]
          /\ pc' = "process"
          /\ exc' = exc
          /\ UNCHANGED locals
  /\ UNCHANGED <<config, clock, hpo_idx, events, log_json>>

\* main, lines 213-214: drop_tables then create_tables on the tables T of a
\* namespace, for a catalog whose data types are all recognised
ResetTables(T) == CreateAll(KeptTables(T), DeclaredTables)


(***************************************************************************)
(* process(hpo_id, schema).                                                *)
(***************************************************************************)
\* the three phase values: 'Received CSV file "<csv_filename>"',
\* 'Parsing CSV file' and 'Loading file into table'
ReceivedPhase(filename) == <<"Received CSV file", filename>>
ParsingPhase == <<"Parsing CSV file">>
LoadingPhase == <<"Loading file into table">>

\* the values success() binds
SuccessEntry(ph) ==
  [log_id |-> clock, table_name |-> table_name, phase |-> ph,
   success |-> TRUE, message |-> NULL, params |-> NoParams]

\* the values fail(message, params) binds: params or None
FailEntry(ph, message, params) ==
  [log_id |-> clock, table_name |-> table_name, phase |-> ph,
   success |-> FALSE, message |-> message,
   params |-> IF params = <<>> THEN NoParams ELSE params]

\* engine.execute(log_table.insert(), ...) on the log table of the schema
LogInsert(entry) ==
  [db EXCEPT ![schema].tables[LOG_TABLE_NAME].rows = Append(@, entry)]

LogEvent(entry) ==
  [op |-> "log", hpo_id |-> hpo_id, table_name |-> table_name, entry |-> entry]
OpenEvent(path, ok) ==
  [op |-> "open", hpo_id |-> hpo_id, table_name |-> table_name, path |-> path, ok |-> ok]
ReadCsvEvent(ok) ==
  [op |-> "read_csv", hpo_id |-> hpo_id, table_name |-> table_name, ok |-> ok]
ToSqlEvent(d) ==
  [op |-> "to_sql", hpo_id |-> hpo_id, table_name |-> table_name,
   rows |-> Len(d.rows), frame |-> d.rows]
InsertEvent(k, ok) ==
  [op |-> "insert", hpo_id |-> hpo_id, table_name |-> table_name, row |-> k,
   of |-> Len(df.rows), values |-> df.rows[k], ok |-> ok]
RaiseEvent(e) ==
  [op |-> "raise", hpo_id |-> hpo_id, table_name |-> table_name, type |-> e.type]

\* the for loop of line 125 moves to the next table, or process returns
NextTable ==
  /\ table_idx' = IF table_idx < Len(tables) THEN table_idx + 1 ELSE 0
  /\ pc' = IF table_idx < Len(tables) THEN "file_check" ELSE "main"
  /\ phase' = NoPhase
  /\ csv_path' = NoPath
  /\ df' = NoDf
  /\ row_idx' = 0
  /\ file_map' = IF table_idx < Len(tables) THEN file_map ELSE NoFileMap

\* lines 96-123: the file map is built from one scan of the directory
ProcessBegin ==
  /\ pc = "process"
  /\ \E fm \in FileMaps(dir_files) : file_map' = fm
  /\ table_idx' = IF Len(tables) > 0 THEN 1 ELSE 0
  /\ pc' = IF Len(tables) > 0 THEN "file_check" ELSE "main"
  /\ UNCHANGED <<config, db, clock, hpo_idx, phase, csv_path, df, row_idx,
                 exc, events, log_json>>

\* FileCheckMiss with the membership test after success()
FileCheckMissAfterSuccess ==
  /\ pc = "file_check"
  /\ csv_filename \notin DOMAIN file_map
  /\ phase' = ReceivedPhase(csv_filename)
  /\ db' = LogInsert(SuccessEntry(phase'))
  /\ clock' = clock + 1
  /\ exc' = Raise("Exception", <<"File not found">>, NoParams)
  /\ events' = events \o <<LogEvent(SuccessEntry(phase')), RaiseEvent(exc')>>
  /\ pc' = "except"
  /\ UNCHANGED <<config, hpo_idx, table_idx, file_map, csv_path, df, row_idx, log_json>>

\* lines 128-151: no item of file_map has the key csv_filename
FileCheckMiss ==
  /\ pc = "file_check"
  /\ csv_filename \notin DOMAIN file_map
  /\ phase' = ReceivedPhase(csv_filename)
  /\ exc' = Raise("Exception", <<"File not found">>, NoParams)
  /\ events' = Append(events, RaiseEvent(exc'))
  /\ pc' = "except"
  /\ UNCHANGED <<config, db, clock, hpo_idx, table_idx, file_map, csv_path,
                 df, row_idx, log_json>>

\* FileCheckHit without the success() of line 152
FileCheckHitSilent ==
  /\ pc = "file_check"
  /\ csv_filename \in DOMAIN file_map
  /\ phase' = ReceivedPhase(csv_filename)
  /\ csv_path' = file_map[csv_filename]
  /\ pc' = "open"
  /\ UNCHANGED <<config, db, clock, events, hpo_idx, table_idx, file_map, df,
                 row_idx, exc, log_json>>

\* lines 128-154: the key is there; success() and csv_path = file_map[csv_filename]
FileCheckHit ==
  /\ pc = "file_check"
  /\ csv_filename \in DOMAIN file_map
  /\ phase' = ReceivedPhase(csv_filename)
  /\ db' = LogInsert(SuccessEntry(phase'))
  /\ clock' = clock + 1
  /\ events' = Append(events, LogEvent(SuccessEntry(phase')))
  /\ csv_path' = file_map[csv_filename]
  /\ pc' = "open"
  /\ UNCHANGED <<config, hpo_idx, table_idx, file_map, df, row_idx, exc, log_json>>

\* line 159: open(csv_path) raises IOError(errno, strerror)
OpenFail ==
  /\ pc = "open"
  /\ exc' = Raise("IOError", <<"13", "Permission denied">>, NoParams)
  /\ events' = events \o <<OpenEvent(csv_path, FALSE), RaiseEvent(exc')>>
  /\ pc' = "except"
  /\ UNCHANGED <<config, db, clock, hpo_idx, locals, log_json>>

\* lines 159-160: the file is open; phase = 'Parsing CSV file'
OpenOk ==
  /\ pc = "open"
  /\ phase' = ParsingPhase
  /\ events' = Append(events, OpenEvent(csv_path, TRUE))
  /\ pc' = "read_csv"
  /\ UNCHANGED <<config, db, clock, hpo_idx, table_idx, file_map, csv_path,
                 df, row_idx, exc, log_json>>

\* pandas.read_csv(f, na_values=['', ' ', '.']) of a file with a header line
ReadCsv(file) ==
  [columns |-> file.header,
   rows |-> [i \in 1..Len(file.rows) |->
               [j \in 1..Len(file.rows[i]) |->
                  IF file.rows[i][j] \in NaValues THEN NaN ELSE file.rows[i][j]]]]

\* line 161: read_csv raises on a file with no header line
ReadCsvFail ==
  /\ pc = "read_csv"
  /\ \E file \in CsvFiles :
       /\ file.header = <<>>
       /\ exc' = Raise("EmptyDataError", <<"No columns to parse from file">>, NoParams)
  /\ events' = events \o <<ReadCsvEvent(FALSE), RaiseEvent(exc')>>
  /\ pc' = "except"
  /\ UNCHANGED <<config, db, clock, hpo_idx, locals, log_json>>

\* lines 161-162: df = read_csv(f); success()
ReadCsvOk ==
  /\ pc = "read_csv"
  /\ \E file \in CsvFiles :
       /\ file.header # <<>>
       /\ df' = ReadCsv(file)
  /\ db' = LogInsert(SuccessEntry(phase))
  /\ clock' = clock + 1
  /\ events' = events \o <<ReadCsvEvent(TRUE), LogEvent(SuccessEntry(phase))>>
  /\ pc' = "transform"
  /\ UNCHANGED <<config, hpo_idx, table_idx, phase, file_map, csv_path,
                 row_idx, exc, log_json>>


\* a rename that leaves the headers as they are in the file
RenameAsRead(d) == d

\* line 165: df.rename(columns=str.lower)
RenameLower(d) == [d EXCEPT !.columns = [i \in 1..Len(d.columns) |-> StrLower(d.columns[i])]]

HasDuplicates(s) == \E i, j \in 1..Len(s) : i # j /\ s[i] = s[j]

\* line 168: df.reindex(columns=column_names), for a frame whose labels are unique
Reindex(d, column_names) ==
  [columns |-> column_names,
   rows |-> [i \in 1..Len(d.rows) |->
               [j \in 1..Len(column_names) |->
                  IF \E k \in 1..Len(d.columns) : d.columns[k] = column_names[j]
                  THEN d.rows[i][CHOOSE k \in 1..Len(d.columns) : d.columns[k] = column_names[j]]
                  ELSE NaN]]]

concept_id == <<"c", "o", "n", "c", "e", "p", "t", "_", "i", "d">>
source == <<"s", "o", "u", "r", "c", "e">>

\* a filter that also takes the source concept columns
ConceptColumnsWithSource(column_names) ==
  {x \in Range(column_names) : EndsWith(x, concept_id)}

\* line 171: the columns whose blanks become 0
ConceptColumns(column_names) ==
  {x \in Range(column_names) : EndsWith(x, concept_id) /\ ~Contains(x, source)}

\* line 172: df[concept_columns] = df[concept_columns].fillna(value=0)
FillNa(d, columns) ==
  [d EXCEPT !.rows = [i \in 1..Len(d.rows) |->
                        [j \in 1..Len(d.columns) |->
                           IF d.columns[j] \in columns /\ d.rows[i][j] = NaN
                           THEN "0" ELSE d.rows[i][j]]]]

\* lines 165-172 on the parsed frame
Transform(d, column_names) ==
  FillNa(Reindex(RenameLower(d), column_names), ConceptColumns(column_names))

\* line 168: reindex raises when two headers are equal once lower-cased
TransformFail ==
  /\ pc = "transform"
  /\ HasDuplicates(RenameLower(df).columns)
  /\ exc' = Raise("ValueError", <<"cannot reindex from a duplicate axis">>, NoParams)
  /\ events' = Append(events, RaiseEvent(exc'))
  /\ pc' = "except"
  /\ UNCHANGED <<config, db, clock, hpo_idx, locals, log_json>>

\* lines 165-175: the frame is transformed; phase = 'Loading file into table'
TransformOk ==
  /\ pc = "transform"
  /\ ~HasDuplicates(RenameLower(df).columns)
  /\ df' = Transform(df, ColumnNames(table_df))
  /\ phase' = LoadingPhase
  /\ row_idx' = 1
  /\ events' = Append(events, ToSqlEvent(df'))
  /\ pc' = "to_sql"
  /\ UNCHANGED <<config, db, clock, hpo_idx, table_idx, file_map, csv_path,
                 exc, log_json>>

\* line 176, chunksize=1: the next row is inserted
InsertRowOk ==
  /\ pc = "to_sql"
  /\ row_idx <= Len(df.rows)
  /\ RowViolation(db[schema].tables[table_name].columns, df.rows[row_idx]) = "none"
  /\ db' = [db EXCEPT ![schema].tables[table_name].rows = Append(@, df.rows[row_idx])]
  /\ events' = Append(events, InsertEvent(row_idx, TRUE))
  /\ row_idx' = row_idx + 1
  /\ UNCHANGED <<config, clock, pc, hpo_idx, table_idx, phase, file_map,
                 csv_path, df, exc, log_json>>

\* InsertRowFail with the error handled per row: logged, and the load goes on
InsertRowFailContinues ==
  /\ pc = "to_sql"
  /\ row_idx <= Len(df.rows)
  /\ LET v == RowViolation(db[schema].tables[table_name].columns, df.rows[row_idx])
         entry == FailEntry(phase, "statement refused", Str(df.rows[row_idx]))
     IN /\ v # "none"
        /\ db' = LogInsert(entry)
        /\ events' = events \o <<InsertEvent(row_idx, FALSE), LogEvent(entry)>>
  /\ clock' = clock + 1
  /\ row_idx' = row_idx + 1
  /\ UNCHANGED <<config, pc, hpo_idx, table_idx, phase, file_map, csv_path,
                 df, exc, log_json>>

\* line 176: the storage layer refuses the next row
InsertRowFail ==
  /\ pc = "to_sql"
  /\ row_idx <= Len(df.rows)
  /\ LET v == RowViolation(db[schema].tables[table_name].columns, df.rows[row_idx])
     IN /\ v # "none"
        /\ exc' = Raise(v, <<"statement refused">>, df.rows[row_idx])
  /\ events' = events \o <<InsertEvent(row_idx, FALSE), RaiseEvent(exc')>>
  /\ pc' = "except"
  /\ UNCHANGED <<config, db, clock, hpo_idx, locals, log_json>>

\* LoadSuccess without waiting for the last row: success() once to_sql has
\* started
LoadSuccessEarly ==
  /\ pc = "to_sql"
  /\ db' = LogInsert(SuccessEntry(phase))
  /\ clock' = clock + 1
  /\ events' = Append(events, LogEvent(SuccessEntry(phase)))
  /\ NextTable
  /\ UNCHANGED <<config, hpo_idx, exc, log_json>>

\* lines 176-177: every row is in; success()
LoadSuccess ==
  /\ pc = "to_sql"
  /\ row_idx > Len(df.rows)
  /\ db' = LogInsert(SuccessEntry(phase))
  /\ clock' = clock + 1
  /\ events' = Append(events, LogEvent(SuccessEntry(phase)))
  /\ NextTable
  /\ UNCHANGED <<config, hpo_idx, exc, log_json>>

\* Handler without the clause of line 180
HandlerStatementOnly(e) ==
  IF e.type \in StatementErrors THEN "StatementError" ELSE "none"

\* lines 178-181: the except clause that takes the exception, if any
Handler(e) ==
  IF e.type \in StatementErrors THEN "StatementError"
  ELSE IF e.type \in Exceptions THEN "Exception"
  ELSE "none"

\* what the except clause logs
HandlerEntry(e) ==
  IF Handler(e) = "StatementError"
  THEN FailEntry(phase, Message(e), Str(e.params))
  ELSE FailEntry(phase, Message(e), NoParams)

\* Except with the try statement around the for loop: after fail(...) process
\* returns
ExceptLeavesLoop ==
  /\ pc = "except"
  /\ IF Handler(exc) = "none"
     THEN /\ pc' = "aborted"
          /\ UNCHANGED <<db, clock, events, exc, locals>>
     ELSE /\ db' = LogInsert(HandlerEntry(exc))
          /\ clock' = clock + 1
          /\ events' = Append(events, LogEvent(HandlerEntry(exc)))
          /\ exc' = NoExc
          /\ pc' = "main"
          /\ table_idx' = 0
          /\ phase' = NoPhase
          /\ csv_path' = NoPath
          /\ df' = NoDf
          /\ row_idx' = 0
          /\ file_map' = NoFileMap
  /\ UNCHANGED <<config, hpo_idx, log_json>>

\* lines 178-181: fail(...) and on to the next table; an exception no clause
\* takes leaves process
Except ==
  /\ pc = "except"
  /\ IF Handler(exc) = "none"
     THEN /\ pc' = "aborted"
          /\ UNCHANGED <<db, clock, events, exc, locals>>
     ELSE /\ db' = LogInsert(HandlerEntry(exc))
          /\ clock' = clock + 1
          /\ events' = Append(events, LogEvent(HandlerEntry(exc)))
          /\ exc' = NoExc
          /\ NextTable
  /\ UNCHANGED <<config, hpo_idx, log_json>>

(***************************************************************************)
(* export_log().  main does not call it: it runs when the caller invokes   *)
(* it after main has returned.                                             *)
(***************************************************************************)
\* ExportRecord without line 198
ExportRecordKeepsParams(row, h) ==
  [k \in DOMAIN row \cup {"hpo_id"} |->
     IF k = "hpo_id" THEN h
     ELSE IF k = "log_id" THEN ToString(row.log_id)
     ELSE row[k]]

\* lines 197-200: one row of a log table as export_log appends it
ExportRecord(row, h) ==
  [k \in (DOMAIN row \ {"params"}) \cup {"hpo_id"} |->
     IF k = "hpo_id" THEN h
     ELSE IF k = "log_id" THEN ToString(row.log_id)
     ELSE row[k]]

\* lines 193-201 for one site: the rows of the log table of its schema
ExportSite(h) ==
  LET rows == db[SchemaOf(h)].tables[LOG_TABLE_NAME].rows
  IN [i \in 1..Len(rows) |-> ExportRecord(rows[i], h)]

\* lines 190-201: all_log_items over the first n sites
RECURSIVE AllLogItems(_)
AllLogItems(n) == IF n = 0 THEN <<>> ELSE AllLogItems(n - 1) \o ExportSite(hpo_ids[n])

export_log ==
  /\ pc = "done"
  /\ \A i \in 1..Len(hpo_ids) : LOG_TABLE_NAME \in DOMAIN db[SchemaOf(hpo_ids[i])].tables
  /\ log_json' = [written |-> TRUE, items |-> AllLogItems(Len(hpo_ids))]
  /\ pc' = "exported"
  /\ UNCHANGED <<config, db, clock, hpo_idx, locals, exc, events>>

Next ==
  \/ MainNextSite
  \/ MainReturn
  \/ create_schema
  \/ drop_tables
  \/ create_tables
  \/ ProcessBegin
  \/ FileCheckMiss
  \/ FileCheckHit
  \/ OpenFail
  \/ OpenOk
  \/ ReadCsvFail
  \/ ReadCsvOk
  \/ TransformFail
  \/ TransformOk
  \/ InsertRowOk
  \/ InsertRowFail
  \/ LoadSuccess
  \/ Except
  \/ export_log

Spec == Init /\ [][Next]_vars


(***************************************************************************)
(* Vocabulary of the properties.                                           *)
(***************************************************************************)
ProcessPcs == {"process", "file_check", "open", "read_csv", "transform", "to_sql", "except"}

\* process is running for the site hpo_id, or has just returned for it
SiteCurrent == hpo_idx >= 1 /\ pc \in ProcessPcs \cup {"main"}

\* process has returned for the site hpo_id and main has not moved on
SiteEnded == hpo_idx >= 1 /\ pc = "main"

\* the rows of the log table of a namespace
LogRows(ns) ==
  IF LOG_TABLE_NAME \in DOMAIN db[ns].tables
  THEN db[ns].tables[LOG_TABLE_NAME].rows
  ELSE <<>>

\* the log entries of the current site's namespace
SiteLog == Range(LogRows(schema))

\* the positions in the history of the events of one kind about one table
EventsAt(op, h, T) ==
  {i \in 1..Len(events) :
     events[i].op = op /\ events[i].hpo_id = h /\ events[i].table_name = T}

\* where a table comes in the for loop of process
TablePos(T) == CHOOSE i \in 1..Len(tables) : tables[i] = T

\* the iteration of table T of the current site is over
Handled(T) == pc = "main" \/ (pc \in ProcessPcs /\ TablePos(T) < table_idx)

\* an insert of a row of table T raised a row-level error
RowError(h, T) == \E i \in EventsAt("insert", h, T) : ~events[i].ok

\* no error was raised while table T was handled
NoError(h, T) == EventsAt("raise", h, T) = {}

(***************************************************************************)
(* C1.  Fail isolation: when process has ended for a site, for any two     *)
(* in-scope tables A and B of the site, in either order, if inserting A's  *)
(* rows raised a row-level error then the log table holds a failure entry  *)
(* for A, B was attempted (the log holds an entry for B), and if no error  *)
(* was raised for B the log holds the success entry of B's load.           *)
(***************************************************************************)
C1_FailIsolation ==
  SiteEnded =>
    \A A, B \in Range(tables) :
      (A # B /\ RowError(hpo_id, A)) =>
        /\ \E e \in SiteLog : e.table_name = A /\ ~e.success
        /\ \E e \in SiteLog : e.table_name = B
        /\ NoError(hpo_id, B) =>
             \E e \in SiteLog :
               e.table_name = B /\ e.success /\ e.phase = LoadingPhase

\* the table processed first failed on a row and the table after it loaded
C1_Witness ==
  /\ SiteEnded
  /\ \E A, B \in Range(tables) :
       /\ TablePos(A) < TablePos(B)
       /\ RowError(hpo_id, A)
       /\ NoError(hpo_id, B)
       /\ \E e \in SiteLog : e.table_name = A /\ ~e.success
       /\ \E e \in SiteLog : e.table_name = B /\ e.success /\ e.phase = LoadingPhase

(***************************************************************************)
(* C2.  Every error raised while a table is handled (file not found, open, *)
(* parse, transform, row insert) is taken by an except clause: the next    *)
(* thing that happens is a failure entry for that table written to the     *)
(* site's log, and no such error leaves process.                           *)
(***************************************************************************)
C2_ErrorsBecomeLogEntries ==
  /\ pc = "aborted" => (events = <<>> \/ Last(events).op # "raise")
  /\ \A i \in 1..Len(events) :
       events[i].op = "raise" =>
         \/ i = Len(events) /\ pc = "except"
         \/ /\ i < Len(events)
            /\ events[i + 1].op = "log"
            /\ events[i + 1].hpo_id = events[i].hpo_id
            /\ events[i + 1].table_name = events[i].table_name
            /\ events[i + 1].entry.table_name = events[i].table_name
            /\ ~events[i + 1].entry.success
            /\ (SiteCurrent /\ events[i].hpo_id = hpo_id) =>
                 events[i + 1].entry \in SiteLog

\* a site ended with an open error logged for one table and a row-insert
\* error logged for another
C2_Witness ==
  /\ SiteEnded
  /\ \E A, B \in Range(tables) :
       /\ \E i \in EventsAt("raise", hpo_id, A) : events[i].type = "IOError"
       /\ \E i \in EventsAt("raise", hpo_id, B) : events[i].type \in StatementErrors
       /\ \E e \in SiteLog : e.table_name = A /\ ~e.success
       /\ \E e \in SiteLog : e.table_name = B /\ ~e.success

(***************************************************************************)
(* C3.  Log completeness: when process has ended for a site, for every     *)
(* table the log holds an entry of the existence-check phase, an entry of  *)
(* the parsing phase if the file was opened for parsing, and an entry of   *)
(* the loading phase if to_sql was called; every entry written for a table *)
(* carries its table_name; log_id never decreases along the log.           *)
(***************************************************************************)
C3_LogComplete ==
  SiteEnded =>
    /\ \A T \in Range(tables) :
         /\ \E e \in SiteLog : e.table_name = T /\ e.phase[1] = "Received CSV file"
         /\ EventsAt("open", hpo_id, T) # {} =>
              \E e \in SiteLog : e.table_name = T /\ e.phase = ParsingPhase
         /\ EventsAt("to_sql", hpo_id, T) # {} =>
              \E e \in SiteLog : e.table_name = T /\ e.phase = LoadingPhase
         /\ \A i \in EventsAt("log", hpo_id, T) : events[i].entry.table_name = T
    /\ \A i, j \in 1..Len(LogRows(schema)) :
         i < j => LogRows(schema)[i].log_id <= LogRows(schema)[j].log_id


\* the log entries of a namespace that were written during this run
RunEntries(ns) == {e \in Range(LogRows(ns)) : e # StaleEntry}

(***************************************************************************)
(* C4.  Append-only log: a log entry written during the run that is in a   *)
(* log table in one state is in that log table in the next state, with     *)
(* isolated namespaces and with one shared namespace.                      *)
(***************************************************************************)
C4_AppendOnly ==
  [][\A ns \in Namespaces : RunEntries(ns) \subseteq RunEntries(ns)']_vars

\* the positions in the history of the log entries written
LogEvents == {i \in 1..Len(events) : events[i].op = "log"}

(***************************************************************************)
(* C5.  Once export_log has run after main, the document holds exactly one *)
(* record per log entry written during the run, and that record is the     *)
(* entry without params and with the hpo_id of the site whose processing   *)
(* wrote it.                                                               *)
(***************************************************************************)
C5_ExportOnePerEntry ==
  pc = "exported" =>
    /\ Len(log_json.items) = Cardinality(LogEvents)
    /\ \A i \in LogEvents :
         Cardinality({j \in 1..Len(log_json.items) :
                        log_json.items[j] = ExportRecord(events[i].entry, events[i].hpo_id)}) = 1

ExportedKeys == {"log_id", "table_name", "phase", "success", "message", "hpo_id"}

(***************************************************************************)
(* C6.  Export confidentiality: no record of the exported document has a   *)
(* params key, also when the entry's params is not null, and every row of  *)
(* every site's log table is exported with its log_id, table_name, phase,  *)
(* success and message.                                                    *)
(***************************************************************************)
C6_NoParamsExported ==
  pc = "exported" =>
    /\ \A j \in 1..Len(log_json.items) : DOMAIN log_json.items[j] = ExportedKeys
    /\ \A n \in 1..Len(hpo_ids) :
         \A row \in Range(LogRows(SchemaOf(hpo_ids[n]))) :
           \E j \in 1..Len(log_json.items) :
             /\ log_json.items[j].hpo_id = hpo_ids[n]
             /\ log_json.items[j].log_id = ToString(row.log_id)
             /\ log_json.items[j].table_name = row.table_name
             /\ log_json.items[j].phase = row.phase
             /\ log_json.items[j].success = row.success
             /\ log_json.items[j].message = row.message

\* a document was exported from a log holding an entry with params
C6_Witness ==
  /\ pc = "exported"
  /\ \E n \in 1..Len(hpo_ids) :
       \E row \in Range(LogRows(SchemaOf(hpo_ids[n]))) :
         /\ row.params # NoParams
         /\ \E j \in 1..Len(log_json.items) :
              log_json.items[j].log_id = ToString(row.log_id)

(***************************************************************************)
(* C7.  Run-level ordering: when main has ended the export has been made,  *)
(* and an export is made only after every site was reset and processed.    *)
(***************************************************************************)
C7_ExportInMain ==
  /\ pc \in {"done", "exported"} => log_json.written
  /\ log_json.written => hpo_idx = Len(hpo_ids)

\* a .csv file of the directory has the name, letter case ignored
Matches(h, T) ==
  \E f \in dir_files :
    EndsWith(f, DotCsv) /\ StrLower(f) = StrLower(CsvFilename(h, T))

(***************************************************************************)
(* C8.  Case-insensitive file resolution: once the existence check of a    *)
(* table is made, if the directory holds a .csv file whose name equals the *)
(* expected name when letter case is ignored, the check has succeeded and  *)
(* csv_path is the original-case path of such a file.                      *)
(***************************************************************************)
C8_CaseInsensitiveMatch ==
  (hpo_idx >= 1 /\ pc \in {"open", "read_csv", "transform", "to_sql", "except"}) =>
    (Matches(hpo_id, table_name) =>
       /\ csv_path # NoPath
       /\ csv_path[1] = csv_dir
       /\ csv_path[2] \in dir_files
       /\ StrLower(csv_path[2]) = StrLower(csv_filename)
       /\ \E e \in SiteLog :
            /\ e.table_name = table_name
            /\ e.success
            /\ e.phase = ReceivedPhase(csv_filename))

\* the log entries of the current site for table T, in the order written
EntriesOf(T) == SelectSeq(LogRows(schema), LAMBDA e : e.table_name = T)

(***************************************************************************)
(* C9.  File miss: for a table with no matching file, no file is opened or *)
(* parsed, no row is inserted and the table stays empty; once its          *)
(* iteration is over the log holds exactly one entry for it, a failure     *)
(* 'File not found' of the existence-check phase; and when process ends    *)
(* every table of the site has been attempted.                             *)
(***************************************************************************)
C9_FileMiss ==
  SiteCurrent =>
    \A T \in Range(tables) :
      ~Matches(hpo_id, T) =>
        /\ EventsAt("open", hpo_id, T) = {}
        /\ EventsAt("read_csv", hpo_id, T) = {}
        /\ EventsAt("to_sql", hpo_id, T) = {}
        /\ EventsAt("insert", hpo_id, T) = {}
        /\ db[schema].tables[T].rows = <<>>
        /\ Handled(T) =>
             /\ Len(EntriesOf(T)) = 1
             /\ ~EntriesOf(T)[1].success
             /\ EntriesOf(T)[1].message = "File not found"
             /\ EntriesOf(T)[1].phase = ReceivedPhase(CsvFilename(hpo_id, T))
             /\ EntriesOf(T)[1].params = NoParams
        /\ SiteEnded => \A U \in Range(tables) : Len(EntriesOf(U)) >= 1

\* the first table of a site had no file, and the table after it was loaded
C9_Witness ==
  /\ SiteEnded
  /\ \E T, U \in Range(tables) :
       /\ TablePos(T) < TablePos(U)
       /\ ~Matches(hpo_id, T)
       /\ Len(EntriesOf(T)) = 1
       /\ EntriesOf(T)[1].message = "File not found"
       /\ EventsAt("insert", hpo_id, U) # {}

(***************************************************************************)
(* C10.  Loading stops at the first failing row: rows are inserted one at  *)
(* a time in file order; after the insert of row k raised, no row of that  *)
(* table is inserted any more, and the except clause writes exactly one    *)
(* failure entry of the loading phase for the table, with the error's      *)
(* message and the failing statement's parameters.                         *)
(***************************************************************************)
C10_StopsAtFirstFailingRow ==
  \A i \in 1..Len(events) :
    events[i].op = "insert" =>
      LET h == events[i].hpo_id
          T == events[i].table_name
      IN /\ events[i].row > 1 =>
              /\ events[i - 1].op = "insert"
              /\ events[i - 1].hpo_id = h
              /\ events[i - 1].table_name = T
              /\ events[i - 1].row = events[i].row - 1
              /\ events[i - 1].ok
         /\ events[i].row = 1 => \A j \in EventsAt("insert", h, T) : j >= i
         /\ ~events[i].ok =>
              /\ \A j \in EventsAt("insert", h, T) : j <= i
              /\ i + 2 <= Len(events) =>
                   /\ events[i + 2].op = "log"
                   /\ events[i + 2].entry =
                        [log_id |-> events[i + 2].entry.log_id,
                         table_name |-> T,
                         phase |-> LoadingPhase,
                         success |-> FALSE,
                         message |-> "statement refused",
                         params |-> Str(events[i].values)]
                   /\ (SiteCurrent /\ h = hpo_id) =>
                        /\ events[i + 2].entry \in SiteLog
                        /\ Cardinality({e \in SiteLog :
                                          /\ e.table_name = T
                                          /\ e.phase = LoadingPhase}) = 1

\* the insert of a row raised, rows after it were left, and the failure is logged
C10_Witness ==
  /\ SiteEnded
  /\ \E i \in 1..Len(events) :
       /\ events[i].op = "insert"
       /\ ~events[i].ok
       /\ events[i].row < events[i].of
       /\ events[i].hpo_id = hpo_id
       /\ \E e \in SiteLog :
            /\ e.table_name = events[i].table_name
            /\ e.phase = LoadingPhase
            /\ e.params = Str(events[i].values)


\* the rows of table T of a namespace, none if the table does not exist
TableRows(ns, T) ==
  IF T \in DOMAIN db[ns].tables THEN db[ns].tables[T].rows ELSE <<>>

(***************************************************************************)
(* C11.  Per-row durability: once the failure of the insert of row k of a  *)
(* table is logged, and from then on to the end of the run, the rows       *)
(* 1..k-1 inserted before it in the same load are in the target table.     *)
(***************************************************************************)
C11_RowsDurable ==
  \A i \in 1..Len(events) :
    (events[i].op = "insert" /\ ~events[i].ok /\ i + 2 <= Len(events)) =>
      LET h == events[i].hpo_id
          T == events[i].table_name
          rows == TableRows(SchemaOf(h), T)
      IN \A j \in EventsAt("insert", h, T) :
           events[j].ok =>
             /\ events[j].row <= Len(rows)
             /\ rows[events[j].row] = events[j].values


\* every data type of the catalog is recognised
CatalogRecognised ==
  \A i \in 1..Len(cdm_df) : ColumnType(cdm_df[i][4]) # "NotImplementedError"

\* the in-scope tables the catalog defines, and the log table
PipelineAndLog == Range(tables) \cup {LOG_TABLE_NAME}

(***************************************************************************)
(* C12.  Idempotent reset: whatever a namespace holds, resetting it twice  *)
(* gives what resetting it once gives, and after a reset every pipeline    *)
(* table and the log table is empty with the catalog's column layout; the  *)
(* namespace main has just reset is left as it is by one more reset.       *)
(***************************************************************************)
C12_IdempotentReset ==
  CatalogRecognised =>
    /\ \A ns \in Namespaces :
         LET once == ResetTables(db[ns].tables)
         IN /\ ResetTables(once) = once
            /\ \A n \in PipelineAndLog :
                 n \in DOMAIN once /\ once[n] = DeclaredTables[n]
    /\ pc = "process" =>
         /\ ResetTables(db[schema].tables) = db[schema].tables
         /\ \A n \in PipelineAndLog :
              db[schema].tables[n] = DeclaredTables[n]

\* the shared namespace, loaded and logged to by the first site, has been
\* reset for the second site; it also holds tables of an earlier run
C12_Witness ==
  /\ pc = "process" /\ hpo_idx = 2 /\ ~use_multi_schemas
  /\ other \in DOMAIN db[schema].tables
  /\ \E i \in 1..Len(events) : events[i].op = "insert" /\ events[i].ok


\* the names in the In-Scope Table Set or the log table name
ScopeAndLog == pmi_tables \cup {LOG_TABLE_NAME}

\* the table names the schema catalog defines
CatalogTables == {cdm_df[i][1] : i \in 1..Len(cdm_df)}

\* the drop half of the frame, over a step of drop_tables on namespace ns
DropsExactlyScopeAndLog(ns) ==
  /\ DOMAIN db'[ns].tables = DOMAIN db[ns].tables \ ScopeAndLog
  /\ \A n \in DOMAIN db'[ns].tables : db'[ns].tables[n] = db[ns].tables[n]

\* the tables a step brings into existence in namespace ns
Created(ns) == DOMAIN db'[ns].tables \ DOMAIN db[ns].tables

\* a step leaves every other namespace as it is
OthersUnchanged(ns) == \A m \in Namespaces \ {ns} : db'[m] = db[m]

(***************************************************************************)
(* C13 as stated.  The reset drops exactly the existing tables in scope or *)
(* named as the log, then creates exactly one table per in-scope table     *)
(* plus the log table; a table whose name is neither is not dropped, not   *)
(* created and not emptied, catalog tables out of scope included.          *)
(***************************************************************************)
C13_ResetFrameAsStated ==
  [][/\ pc = "drop_tables" => DropsExactlyScopeAndLog(schema)
     /\ (pc = "create_tables" /\ pc' = "process") =>
          /\ Created(schema) = PipelineAndLog
          /\ \A n \in DOMAIN db'[schema].tables \ ScopeAndLog :
               n \in DOMAIN db[schema].tables
               /\ db'[schema].tables[n] = db[schema].tables[n]]_vars

(***************************************************************************)
(* C13 amended.  The reset drops exactly the existing tables in scope or   *)
(* named as the log, then creates an empty table, with the catalog's       *)
(* layout, for every table of the catalog that does not exist at that      *)
(* point, in scope or not, plus the log table; a table that exists before  *)
(* the reset and whose name is neither in scope nor the log name is kept   *)
(* with its layout and rows, and no other namespace changes.               *)
(***************************************************************************)
C13_ResetFrame ==
  [][/\ pc = "drop_tables" =>
          DropsExactlyScopeAndLog(schema) /\ OthersUnchanged(schema)
     /\ (pc = "create_tables" /\ pc' = "process") =>
          /\ Created(schema) =
               (CatalogTables \cup {LOG_TABLE_NAME}) \ DOMAIN db[schema].tables
          /\ PipelineAndLog \subseteq Created(schema)
          /\ \A n \in Created(schema) :
               db'[schema].tables[n] = DeclaredTables[n]
          /\ \A n \in DOMAIN db[schema].tables :
               n \in DOMAIN db'[schema].tables
               /\ db'[schema].tables[n] = db[schema].tables[n]
          /\ OthersUnchanged(schema)]_vars

\* after a reset of a namespace left by an earlier run: the unrelated table
\* and the catalog table out of scope keep their rows, the in-scope table
\* is new
C13_Witness ==
  /\ pc = "process"
  /\ other \in DOMAIN db[schema].tables
  /\ db[schema].tables[other] = StaleTables[other]
  /\ db[schema].tables[care_site] = StaleTables[care_site]
  /\ db[schema].tables[person] = DeclaredTables[person]


\* the data types the spec lists as recognised
RecognisedTypes ==
  {"character varying", "text", "integer", "numeric", "date", "datetime"}

\* some column of the catalog has a data type outside the recognised ones
CatalogHasUnknownType ==
  \E i \in 1..Len(cdm_df) : cdm_df[i][4] \notin RecognisedTypes

(***************************************************************************)
(* C14.  A catalog column of unrecognised data type is fatal and early:    *)
(* the run never gets past create_tables of the first site, which raises   *)
(* NotImplementedError; no table is created (every table that exists is    *)
(* one the earlier run left, unchanged), no file is looked up or opened,   *)
(* no row is inserted and no log entry is written, for any site.           *)
(***************************************************************************)
C14_ConfigErrorFatal ==
  CatalogHasUnknownType =>
    /\ pc \in {"main", "create_schema", "drop_tables", "create_tables", "aborted"}
    /\ hpo_idx <= 1
    /\ pc = "aborted" => exc.type = "NotImplementedError"
    /\ events = <<>>
    /\ file_map = NoFileMap /\ csv_path = NoPath /\ df = NoDf
    /\ \A ns \in Namespaces : \A n \in DOMAIN db[ns].tables :
         n \in DOMAIN StaleTables /\ db[ns].tables[n] = StaleTables[n]

\* the run has aborted on the catalog with a 'timestamp' column, with files
\* waiting in the directory and a second site never started
C14_Witness ==
  /\ CatalogHasUnknownType
  /\ pc = "aborted" /\ hpo_idx = 1 /\ Len(hpo_ids) = 2
  /\ dir_files # {}


\* the positions of the source headers that match a target column name once
\* lower-cased
SourceOf(name) == {k \in 1..Len(df.columns) : StrLower(df.columns[k]) = name}

\* no two source headers are equal once lower-cased
HeadersUnique ==
  \A k, l \in 1..Len(df.columns) :
    StrLower(df.columns[k]) = StrLower(df.columns[l]) => k = l

\* the frame after lines 165-168, and after lines 165-172
Reindexed == Reindex(RenameLower(df), ColumnNames(table_df))
Transformed == Transform(df, ColumnNames(table_df))

(***************************************************************************)
(* C15.  Column reindexing: for a parsed file whose headers are unique     *)
(* once lower-cased, the reindexed frame has exactly the target table's    *)
(* columns in the target's order and as many rows as the file; a cell of a *)
(* target column is the cell of the source column whose lower-cased header *)
(* is the target name, and null when no source column matches; the frame   *)
(* handed to the load has the target's columns in every row.               *)
(***************************************************************************)
C15_ColumnReindexing ==
  /\ (pc = "transform" /\ HeadersUnique) =>
       /\ Reindexed.columns = ColumnNames(table_df)
       /\ Len(Reindexed.rows) = Len(df.rows)
       /\ \A i \in 1..Len(df.rows) : \A j \in 1..Len(table_df) :
            /\ Len(Reindexed.rows[i]) = Len(table_df)
            /\ SourceOf(table_df[j][2]) = {} => Reindexed.rows[i][j] = NaN
            /\ \A k \in SourceOf(table_df[j][2]) :
                 Reindexed.rows[i][j] = df.rows[i][k]
  /\ pc = "to_sql" =>
       /\ df.columns = ColumnNames(table_df)
       /\ \A i \in 1..Len(df.rows) : Len(df.rows[i]) = Len(table_df)

\* the file with the headers extra, Person_Id, gender_source_concept_id and
\* GENDER_CONCEPT_ID has been parsed for the table person
C15_Witness ==
  /\ pc = "transform" /\ HeadersUnique /\ table_name = person
  /\ df.columns = <<extra, Person_Id, gender_source_concept_id, GENDER_CONCEPT_ID>>
  /\ Reindexed.rows[2] = <<"2", "7", "5">>


\* the name ends with 'concept_id' and does not contain 'source'
IsConceptColumn(name) == EndsWith(name, concept_id) /\ ~Contains(name, source)

(***************************************************************************)
(* C16.  Concept-id null coercion: in the transformed frame a cell is 0    *)
(* where the reindexed frame has a null in a column whose name ends with   *)
(* 'concept_id' and does not contain 'source' (the column missing from the *)
(* file included), and is the reindexed cell everywhere else: nulls of     *)
(* other columns stay null and non-null values are unchanged.  The frame   *)
(* handed to the load has no null in such a concept column.                *)
(***************************************************************************)
C16_ConceptNullCoercion ==
  /\ (pc = "transform" /\ HeadersUnique) =>
       /\ Transformed.columns = Reindexed.columns
       /\ Len(Transformed.rows) = Len(Reindexed.rows)
       /\ \A i \in 1..Len(df.rows) : \A j \in 1..Len(table_df) :
            Transformed.rows[i][j] =
              IF IsConceptColumn(table_df[j][2]) /\ Reindexed.rows[i][j] = NaN
              THEN "0" ELSE Reindexed.rows[i][j]
  /\ pc = "to_sql" =>
       \A i \in 1..Len(df.rows) : \A j \in 1..Len(table_df) :
         IsConceptColumn(table_df[j][2]) => df.rows[i][j] # NaN

\* the frame of the mixed-case file is being loaded into person: the blank
\* gender_concept_id of row 1 is 0, its blank gender_source_concept_id is
\* still null, and the values of row 2 are as in the file
C16_Witness ==
  /\ pc = "to_sql" /\ table_name = person
  /\ df.rows = << <<"1", "0", NaN>>, <<"2", "7", "5">> >>


(***************************************************************************)
(* C17.  At most one outcome per phase: of the log entries written for one *)
(* site and one table no two have the same phase, so no phase has both a   *)
(* success and a failure entry.                                            *)
(***************************************************************************)
C17_OneOutcomePerPhase ==
  \A i, j \in LogEvents :
    (/\ events[i].hpo_id = events[j].hpo_id
     /\ events[i].table_name = events[j].table_name
     /\ events[i].entry.phase = events[j].entry.phase) => i = j


\* a success entry of phase ph for table T of site h was written before
\* position i of the history
SuccessBefore(i, h, T, ph) ==
  \E j \in EventsAt("log", h, T) :
    j < i /\ events[j].entry.success /\ events[j].entry.phase = ph

(***************************************************************************)
(* C18.  Eager log-then-attempt ordering: for every table the success      *)
(* entry of the existence check is written before the file is opened or    *)
(* parsed and the success entry of parsing before the load starts or any   *)
(* row is inserted; a 'Loading file into table' entry, success or failure, *)
(* is written only after both success entries of the same table; and no    *)
(* entry is written for a table after a failure entry for it.              *)
(***************************************************************************)
C18_LogThenAttempt ==
  \A i \in 1..Len(events) :
    LET h == events[i].hpo_id
        T == events[i].table_name
        received == ReceivedPhase(CsvFilename(h, T))
    IN /\ events[i].op \in {"open", "read_csv"} =>
            SuccessBefore(i, h, T, received)
       /\ events[i].op \in {"to_sql", "insert"} =>
            SuccessBefore(i, h, T, ParsingPhase)
       /\ (events[i].op = "log" /\ events[i].entry.phase = LoadingPhase) =>
            /\ SuccessBefore(i, h, T, received)
            /\ SuccessBefore(i, h, T, ParsingPhase)
       /\ (events[i].op = "log" /\ ~events[i].entry.success) =>
            \A j \in EventsAt("log", h, T) : j <= i

\* a failure entry of the loading phase was written for a table after a row
\* of it had been inserted
C18_Witness ==
  \E i \in LogEvents :
    /\ events[i].entry.phase = LoadingPhase
    /\ ~events[i].entry.success
    /\ \E j \in EventsAt("insert", events[i].hpo_id, events[i].table_name) :
         j < i /\ events[j].ok


(***************************************************************************)
(* C19.  Loading success means a complete load: whenever the log table of  *)
(* a namespace holds a success entry of the loading phase written during   *)
(* the run, the entry was written for a site of that namespace after every *)
(* row of the transformed file was inserted, and the target table holds    *)
(* exactly the rows of the transformed file, as many as the file has data  *)
(* rows, and none from an earlier run.                                     *)
(***************************************************************************)
C19_LoadSuccessComplete ==
  \A ns \in Namespaces : \A e \in RunEntries(ns) :
    (e.success /\ e.phase = LoadingPhase) =>
      \E i \in LogEvents :
        /\ events[i].entry = e
        /\ SchemaOf(events[i].hpo_id) = ns
        /\ events[i].table_name = e.table_name
        /\ \E k \in EventsAt("to_sql", events[i].hpo_id, e.table_name) :
             /\ k < i
             /\ \A r \in 1..events[k].rows :
                  \E j \in EventsAt("insert", events[i].hpo_id, e.table_name) :
                    k < j /\ j < i /\ events[j].row = r /\ events[j].ok
             /\ TableRows(ns, e.table_name) = events[k].frame
             /\ Len(TableRows(ns, e.table_name)) = events[k].rows

\* the namespace held tables and rows of an earlier run, and the log now
\* has the success entry of a load of all the rows of a file into person
C19_Witness ==
  /\ hpo_idx >= 1
  /\ other \in DOMAIN db[schema].tables
  /\ \E e \in RunEntries(schema) :
       e.success /\ e.phase = LoadingPhase /\ e.table_name = person
  /\ Len(TableRows(schema, person)) = MaxRows

=============================================================================
